---- MODULE Spec2Model ----
(***************************************************************************)
(* Model of the CRUD Book API (02-CRUD-Rest-API/main.py): the in-memory    *)
(* list `books` and the five request handlers that read and mutate it.     *)
(*                                                                         *)
(* Optional[...] values are sequences of length 0 or 1: <<>> is None and   *)
(* <<v>> is the value v.  A JSON request body is a function from the keys  *)
(* it carries to such values, so a key can be absent, null or a value.     *)
(***************************************************************************)
EXTENDS Integers, Sequences, FiniteSets, TLC

VARIABLES books, prev, resp, nops, order, latest, reqs

vars == <<books, prev, resp, nops, order, latest, reqs>>

\* ------------------------------------------------------------------ bounds
MaxOps == 3
MaxRequests == 3

\* ------------------------------------------------------- status codes
HTTP_200_OK == 200
HTTP_201_CREATED == 201
HTTP_204_NO_CONTENT == 204
HTTP_400_BAD_REQUEST == 400
HTTP_404_NOT_FOUND == 404

None == <<>>

\* ------------------------------------------------------- pydantic models
\* BookModel(**body): page_count defaults to None, language to "English";
\* a key that is present keeps its value, null included.
BookModel(body) ==
    [book_id    |-> body.book_id,
     title      |-> body.title,
     author     |-> body.author,
     page_count |-> IF "page_count" \in DOMAIN body THEN body.page_count ELSE None,
     language   |-> IF "language" \in DOMAIN body THEN body.language ELSE <<"English">>]

\* BookUpdateModel(**body): every field defaults to None.
BookUpdateModel(body) ==
    [title      |-> IF "title" \in DOMAIN body THEN body.title ELSE None,
     author     |-> IF "author" \in DOMAIN body THEN body.author ELSE None,
     page_count |-> IF "page_count" \in DOMAIN body THEN body.page_count ELSE None,
     language   |-> IF "language" \in DOMAIN body THEN body.language ELSE None]

\* ------------------------------------------------------- the seeded store
\* The five records of `books` (the accents of record 4's author are dropped).
SeedBooks ==
    << BookModel([book_id |-> 1, title |-> "Atomic Habits", author |-> "James Clear",
                  page_count |-> <<320>>]),
       BookModel([book_id |-> 2, title |-> "Sapiens", author |-> "Yuval Noah Harari",
                  page_count |-> <<498>>]),
       BookModel([book_id |-> 3, title |-> "The Alchemist", author |-> "Paulo Coelho",
                  page_count |-> <<208>>, language |-> <<"Portuguese">>]),
       BookModel([book_id |-> 4, title |-> "Ikigai", author |-> "Hector Garcia",
                  page_count |-> <<194>>, language |-> <<"Japanese">>]),
       BookModel([book_id |-> 5, title |-> "Zero to One", author |-> "Peter Thiel",
                  page_count |-> <<224>>]) >>

\* ------------------------------------------------------- list helpers
\* Variant: `all` written for `any`.
AllBookId(bs, book_id) == \A i \in 1..Len(bs) : bs[i].book_id = book_id

\* any(book.book_id == book_id for book in bs)
AnyBookId(bs, book_id) == \E i \in 1..Len(bs) : bs[i].book_id = book_id

\* Variant: the loop variable is used after the loop, so a scan that finds
\* nothing is left holding the last element.
FirstMatchLeaky(bs, book_id) ==
    IF \E i \in 1..Len(bs) : bs[i].book_id = book_id
    THEN CHOOSE i \in 1..Len(bs) :
            /\ bs[i].book_id = book_id
            /\ \A j \in 1..(i - 1) : bs[j].book_id # book_id
    ELSE Len(bs)

\* `for book in bs: if book.book_id == book_id:` -- the index of the first
\* match, 0 when the loop falls through.
FirstMatch(bs, book_id) ==
    IF \E i \in 1..Len(bs) : bs[i].book_id = book_id
    THEN CHOOSE i \in 1..Len(bs) :
            /\ bs[i].book_id = book_id
            /\ \A j \in 1..(i - 1) : bs[j].book_id # book_id
    ELSE 0

\* Variant: list.pop() written for list.remove(x).
ListPop(bs, x) == SubSeq(bs, 1, Len(bs) - 1)

\* list.remove(x): drops the first element that compares equal to x
\* (pydantic models compare field by field).
ListRemove(bs, x) ==
    LET k == CHOOSE i \in 1..Len(bs) :
                /\ bs[i] = x
                /\ \A j \in 1..(i - 1) : bs[j] # x
    IN  [i \in 1..(Len(bs) - 1) |-> IF i < k THEN bs[i] ELSE bs[i + 1]]

\* ------------------------------------------------------- the handlers
\* Each handler is a function of the list and its arguments; it yields the
\* list it leaves behind, the status code and the response body.
\* Variant: the list is returned newest first.
get_all_books_reversed(bs) ==
    [books |-> bs, status |-> HTTP_200_OK,
     body |-> [i \in 1..Len(bs) |-> bs[Len(bs) + 1 - i]]]

get_all_books(bs) ==
    [books |-> bs, status |-> HTTP_200_OK, body |-> bs]

\* Variant: the duplicate check is missing.
create_book_unchecked(bs, book_data) ==
    [books |-> Append(bs, book_data), status |-> HTTP_201_CREATED,
     body |-> <<book_data>>]

\* Variant: a duplicate replaces the stored record instead of being rejected.
create_book_upsert(bs, book_data) ==
    IF AnyBookId(bs, book_data.book_id)
    THEN [books |-> [bs EXCEPT ![FirstMatch(bs, book_data.book_id)] = book_data],
          status |-> HTTP_400_BAD_REQUEST, body |-> None]
    ELSE [books |-> Append(bs, book_data), status |-> HTTP_201_CREATED,
          body |-> <<book_data>>]

\* Variant: list.insert(0, x) written for list.append(x).
create_book_front(bs, book_data) ==
    IF AnyBookId(bs, book_data.book_id)
    THEN [books |-> bs, status |-> HTTP_400_BAD_REQUEST, body |-> None]
    ELSE [books |-> <<book_data>> \o bs, status |-> HTTP_201_CREATED,
          body |-> <<book_data>>]

create_book(bs, book_data) ==
    IF AnyBookId(bs, book_data.book_id)
    THEN [books |-> bs, status |-> HTTP_400_BAD_REQUEST, body |-> None]
    ELSE [books |-> Append(bs, book_data), status |-> HTTP_201_CREATED,
          body |-> <<book_data>>]

get_book(bs, book_id) ==
    LET i == FirstMatch(bs, book_id)
    IN  IF i = 0
        THEN [books |-> bs, status |-> HTTP_404_NOT_FOUND, body |-> None]
        ELSE [books |-> bs, status |-> HTTP_200_OK, body |-> <<bs[i]>>]

\* Variant: page_count and language are assigned without the None test.
ApplyUpdateClears(book, book_update_data) ==
    [book_id    |-> book.book_id,
     title      |-> IF book_update_data.title # None
                    THEN book_update_data.title[1] ELSE book.title,
     author     |-> IF book_update_data.author # None
                    THEN book_update_data.author[1] ELSE book.author,
     page_count |-> book_update_data.page_count,
     language   |-> book_update_data.language]

\* Variant: the author branch assigns to title.
ApplyUpdateSwapped(book, book_update_data) ==
    [book_id    |-> book.book_id,
     title      |-> IF book_update_data.author # None
                    THEN book_update_data.author[1]
                    ELSE IF book_update_data.title # None
                         THEN book_update_data.title[1] ELSE book.title,
     author     |-> book.author,
     page_count |-> IF book_update_data.page_count # None
                    THEN book_update_data.page_count ELSE book.page_count,
     language   |-> IF book_update_data.language # None
                    THEN book_update_data.language ELSE book.language]

\* The four `if ... is not None:` assignments of update_book.
ApplyUpdate(book, book_update_data) ==
    [book_id    |-> book.book_id,
     title      |-> IF book_update_data.title # None
                    THEN book_update_data.title[1] ELSE book.title,
     author     |-> IF book_update_data.author # None
                    THEN book_update_data.author[1] ELSE book.author,
     page_count |-> IF book_update_data.page_count # None
                    THEN book_update_data.page_count ELSE book.page_count,
     language   |-> IF book_update_data.language # None
                    THEN book_update_data.language ELSE book.language]

update_book(bs, book_id, book_update_data) ==
    LET i == FirstMatch(bs, book_id)
    IN  IF i = 0
        THEN [books |-> bs, status |-> HTTP_404_NOT_FOUND, body |-> None]
        ELSE LET book == ApplyUpdate(bs[i], book_update_data)
             IN  [books |-> [bs EXCEPT ![i] = book], status |-> HTTP_200_OK,
                  body |-> <<book>>]

delete_book(bs, book_id) ==
    LET i == FirstMatch(bs, book_id)
    IN  IF i = 0
        THEN [books |-> bs, status |-> HTTP_404_NOT_FOUND, body |-> None]
        ELSE [books |-> ListRemove(bs, bs[i]), status |-> HTTP_204_NO_CONTENT,
              body |-> None]

\* ------------------------------------------------------- request inputs
\* Identifiers a request may name: the first and a middle seeded record and
\* one identifier that is not seeded.
BookIds == {1, 3, 6}

Fields == {"title", "author", "page_count", "language"}

\* POST bodies without the book_id key (added per request).
CreateBodies ==
    { [title |-> "Dune", author |-> "Frank Herbert"],
      [title |-> "Dune", author |-> "Frank Herbert",
       page_count |-> <<412>>, language |-> <<"Hindi">>],
      [title |-> "", author |-> "", page_count |-> None, language |-> None] }

WithBookId(body, book_id) ==
    [k \in DOMAIN body \cup {"book_id"} |->
        IF k = "book_id" THEN book_id ELSE body[k]]

UpdateValue ==
    [title |-> <<"Emma">>, author |-> <<"Jane Austen">>,
     page_count |-> <<500>>, language |-> <<"Hindi">>]

\* PATCH bodies: every combination of present keys, plus empty strings and
\* explicit nulls.
UpdateBodies ==
    { [k \in S |-> UpdateValue[k]] : S \in SUBSET Fields }
    \cup { [title |-> <<"">>], [author |-> <<"">>],
           [page_count |-> None], [language |-> None],
           [title |-> None, author |-> None, page_count |-> None, language |-> None],
           [title |-> <<"">>, author |-> <<"">>, page_count |-> None, language |-> <<"">>] }

\* ------------------------------------------------------- reference view
\* What a client that watched only the responses expects the collection to
\* be: identifiers in order of their latest successful creation, and for
\* each the field values left by the latest successful write.
Merge(rec, body) ==
    [k \in DOMAIN rec |->
        IF k \in DOMAIN body /\ k # "book_id" /\ body[k] # None
        THEN (IF k \in {"title", "author"} THEN body[k][1] ELSE body[k])
        ELSE rec[k]]

Track(op, book_id, body, status) ==
    /\ order' = CASE op = "create" /\ status = HTTP_201_CREATED -> Append(order, book_id)
                  [] op = "delete" /\ status = HTTP_204_NO_CONTENT ->
                        SelectSeq(order, LAMBDA x : x # book_id)
                  [] OTHER -> order
    /\ latest' = CASE op = "create" /\ status = HTTP_201_CREATED ->
                        [x \in DOMAIN latest \cup {book_id} |->
                            IF x = book_id THEN BookModel(WithBookId(body, book_id))
                            ELSE latest[x]]
                   [] op = "update" /\ status = HTTP_200_OK ->
                        [latest EXCEPT ![book_id] = Merge(@, body)]
                   [] OTHER -> latest

\* ------------------------------------------------------- sequential calls
NoReq == [state |-> "idle", op |-> "none", book_id |-> 0, body |-> <<>>,
          status |-> 0, overlaps |-> {}, had |-> FALSE, cut |-> FALSE]

Init ==
    /\ books = SeedBooks
    /\ prev = SeedBooks
    /\ resp = [op |-> "none", book_id |-> 0, body |-> <<>>, status |-> 0, out |-> None]
    /\ nops = 0
    /\ order = [i \in 1..Len(SeedBooks) |-> SeedBooks[i].book_id]
    /\ latest = [x \in {SeedBooks[i].book_id : i \in 1..Len(SeedBooks)} |->
                    SeedBooks[FirstMatch(SeedBooks, x)]]
    /\ reqs = [r \in 1..MaxRequests |-> NoReq]

Finish(op, book_id, body, r) ==
    /\ nops < MaxOps
    /\ nops' = nops + 1
    /\ prev' = books
    /\ books' = r.books
    /\ resp' = [op |-> op, book_id |-> book_id, body |-> body,
                status |-> r.status, out |-> r.body]
    /\ Track(op, book_id, body, r.status)
    /\ UNCHANGED reqs

List ==
    Finish("list", 0, <<>>, get_all_books(books))

Create ==
    \E book_id \in BookIds, body \in CreateBodies :
        Finish("create", book_id, body,
               create_book(books, BookModel(WithBookId(body, book_id))))

Get ==
    \E book_id \in BookIds :
        Finish("get", book_id, <<>>, get_book(books, book_id))

Update ==
    \E book_id \in BookIds, body \in UpdateBodies :
        Finish("update", book_id, body,
               update_book(books, book_id, BookUpdateModel(body)))

Delete ==
    \E book_id \in BookIds :
        Finish("delete", book_id, <<>>, delete_book(books, book_id))

Next == List \/ Create \/ Get \/ Update \/ Delete

Spec == Init /\ [][Next]_vars

\* ======================================================= properties
\* The record a POST body is parsed into.
Submitted == BookModel(WithBookId(resp.body, resp.book_id))

\* A PATCH key that carries a value (present and not null).
Supplied(body, f) == f \in DOMAIN body /\ body[f] # None

SuppliedValue(body, f) == IF f \in {"title", "author"} THEN body[f][1] ELSE body[f]

\* C1: the collection never holds two records with the same book_id.
NoDuplicateBookIds ==
    \A i, j \in 1..Len(books) : books[i].book_id = books[j].book_id => i = j

\* A seeded identifier was deleted and successfully created again.
W_C1 ==
    /\ resp.op = "create" /\ resp.status = HTTP_201_CREATED
    /\ resp.book_id = 1
    /\ Len(books) = 5

\* C2: Create with a book_id that is already in the collection fails with 400
\* and leaves the collection as it was, whatever the other fields are.
CreateConflictUnchanged ==
    (resp.op = "create" /\ AnyBookId(prev, resp.book_id))
        => /\ resp.status = HTTP_400_BAD_REQUEST
           /\ resp.out = None
           /\ books = prev

\* A conflicting Create whose other fields differ from the stored record.
W_C2 ==
    /\ resp.op = "create" /\ resp.status = HTTP_400_BAD_REQUEST
    /\ resp.book_id = 6
    /\ \E i \in 1..Len(prev) : prev[i].book_id = 6 /\ prev[i] # Submitted

\* C3: Get, Update and Delete with a book_id that no record has fail with 404
\* and leave the collection as it was.
NotFoundUnchanged ==
    (resp.op \in {"get", "update", "delete"} /\ ~AnyBookId(prev, resp.book_id))
        => /\ resp.status = HTTP_404_NOT_FOUND
           /\ resp.out = None
           /\ books = prev

\* An Update carrying all four fields for an identifier that was deleted.
W_C3 ==
    /\ resp.op = "update" /\ resp.status = HTTP_404_NOT_FOUND
    /\ resp.book_id = 3
    /\ DOMAIN resp.body = Fields
    /\ Len(prev) = 4

\* C4: Create with a book_id that is not present succeeds with 201, returns
\* the record unchanged, appends it as the last element, and a Get that follows
\* returns the same record.
CreateAppendsThenGet ==
    (resp.op = "create" /\ ~AnyBookId(prev, resp.book_id))
        => /\ resp.status = HTTP_201_CREATED
           /\ resp.out = <<Submitted>>
           /\ books = Append(prev, Submitted)
           /\ get_book(books, resp.book_id).status = HTTP_200_OK
           /\ get_book(books, resp.book_id).body = <<Submitted>>
           /\ get_book(books, resp.book_id).books = books

\* A successful Create of a new identifier onto a collection that an earlier
\* call has already changed.
W_C4 ==
    /\ resp.op = "create" /\ resp.status = HTTP_201_CREATED
    /\ resp.book_id = 6
    /\ prev # SeedBooks
    /\ books[Len(books)].language = <<"English">>

\* C5: Update on an existing record sets each supplied field, keeps each
\* field that is not supplied, keeps book_id, leaves every other record, the
\* length and the order alone, and returns the stored record.
UpdateMergesFields ==
    (resp.op = "update" /\ AnyBookId(prev, resp.book_id))
        => /\ resp.status = HTTP_200_OK
           /\ Len(books) = Len(prev)
           /\ \A i \in 1..Len(prev) :
                IF prev[i].book_id = resp.book_id
                THEN /\ books[i].book_id = resp.book_id
                     /\ \A f \in Fields :
                          books[i][f] = IF Supplied(resp.body, f)
                                        THEN SuppliedValue(resp.body, f)
                                        ELSE prev[i][f]
                     /\ resp.out = <<books[i]>>
                ELSE books[i] = prev[i]

\* An Update that supplies two of the four fields and changes the record.
W_C5 ==
    /\ resp.op = "update" /\ resp.status = HTTP_200_OK
    /\ DOMAIN resp.body = {"author", "page_count"}
    /\ books # prev

\* C6: Delete on an existing book_id removes that record and no other, keeps
\* the rest in order, and a Get that follows fails with 404.
DeleteRemovesExactlyOne ==
    (resp.op = "delete" /\ AnyBookId(prev, resp.book_id))
        => /\ resp.status = HTTP_204_NO_CONTENT
           /\ Len(books) = Len(prev) - 1
           /\ books = SelectSeq(prev, LAMBDA b : b.book_id # resp.book_id)
           /\ get_book(books, resp.book_id).status = HTTP_404_NOT_FOUND

\* A Delete of a middle record while a created record sits behind it.
W_C6 ==
    /\ resp.op = "delete" /\ resp.status = HTTP_204_NO_CONTENT
    /\ resp.book_id = 3
    /\ Len(prev) = 6

\* C7: List all returns the records created and not deleted since, in order
\* of insertion, with the values of the latest Update, and changes nothing.
ListReflectsCollection ==
    /\ get_all_books(books).body = [i \in 1..Len(order) |-> latest[order[i]]]
    /\ get_all_books(books).books = books
    /\ resp.op = "list" => /\ resp.status = HTTP_200_OK
                           /\ books = prev
                           /\ resp.out = [i \in 1..Len(order) |-> latest[order[i]]]

\* List all after a seeded record was deleted and created again.
W_C7 ==
    /\ resp.op = "list"
    /\ order = <<2, 3, 4, 5, 1>>

\* C8: a record whose title and author are non-empty still has a non-empty
\* title and author after any successful Update.
TitleAuthorStayNonEmpty ==
    (resp.op = "update" /\ resp.status = HTTP_200_OK)
        => \A i \in 1..Len(prev) :
              (prev[i].book_id = resp.book_id /\ prev[i].title # "" /\ prev[i].author # "")
                 => (books[i].title # "" /\ books[i].author # "")

\* C10: Update treats a null field like an absent one, and a page_count or
\* language that is not null stays not null for as long as the record exists.
DropNulls(body) == [k \in {f \in DOMAIN body : body[f] # None} |-> body[k]]

NonNullStaysNonNull ==
    /\ \A i \in 1..Len(prev), j \in 1..Len(books) :
          prev[i].book_id = books[j].book_id
             => /\ prev[i].page_count # None => books[j].page_count # None
                /\ prev[i].language # None => books[j].language # None
    /\ resp.op = "update" =>
          books = update_book(prev, resp.book_id, BookUpdateModel(DropNulls(resp.body))).books

\* An Update with explicit nulls on a record whose language an earlier Update
\* had set.
W_C10 ==
    /\ resp.op = "update" /\ resp.status = HTTP_200_OK
    /\ resp.book_id = 6
    /\ resp.body = [title |-> None, author |-> None, page_count |-> None, language |-> None]
    /\ \E i \in 1..Len(prev) :
          prev[i].book_id = 6 /\ prev[i].language = <<"Hindi">> /\ prev[i].page_count = <<500>>

\* ------------------------------------------------------- overlapping requests
\* Requests are numbered in order of arrival.  A request is pending from its
\* arrival until the event loop runs its handler.  The handlers are
\* `async def` bodies without any `await`, so the event loop runs each one
\* from its first line to its return or raise as one step.
Requests == 1..MaxRequests

ConcCalls ==
    { [op |-> "create", book_id |-> 6, body |-> [title |-> "Dune", author |-> "Frank Herbert"]],
      [op |-> "create", book_id |-> 6,
       body |-> [title |-> "", author |-> "", page_count |-> None, language |-> None]],
      [op |-> "create", book_id |-> 3, body |-> [title |-> "Dune", author |-> "Frank Herbert"]],
      [op |-> "delete", book_id |-> 6, body |-> <<>>],
      [op |-> "delete", book_id |-> 3, body |-> <<>>],
      [op |-> "update", book_id |-> 3, body |-> [page_count |-> <<500>>]],
      [op |-> "get", book_id |-> 3, body |-> <<>>],
      [op |-> "list", book_id |-> 0, body |-> <<>>] }

\* The route table: which handler a request reaches.
Dispatch(bs, req) ==
    CASE req.op = "list"   -> get_all_books(bs)
      [] req.op = "create" -> create_book(bs, BookModel(WithBookId(req.body, req.book_id)))
      [] req.op = "get"    -> get_book(bs, req.book_id)
      [] req.op = "update" -> update_book(bs, req.book_id, BookUpdateModel(req.body))
      [] req.op = "delete" -> delete_book(bs, req.book_id)

Submit(r) ==
    /\ reqs[r].state = "idle"
    /\ \A q \in Requests : q < r => reqs[q].state # "idle"
    /\ \E call \in ConcCalls :
          reqs' = [reqs EXCEPT ![r] =
                      [state |-> "pending", op |-> call.op, book_id |-> call.book_id,
                       body |-> call.body, status |-> 0,
                       overlaps |-> {q \in Requests : reqs[q].state = "pending"},
                       had |-> FALSE, cut |-> FALSE]]
    /\ UNCHANGED <<books, prev, resp, nops, order, latest>>

\* A finished request is marked `cut` when a later request changes the
\* membership of its book_id the other way round (a delete after a create,
\* a create after a delete).
Undoes(req, done, status) ==
    /\ done.state = "done"
    /\ done.book_id = req.book_id
    /\ \/ req.op = "delete" /\ status = HTTP_204_NO_CONTENT /\ done.op = "create"
       \/ req.op = "create" /\ status = HTTP_201_CREATED /\ done.op = "delete"

Handle(r) ==
    /\ reqs[r].state = "pending"
    /\ LET res == Dispatch(books, reqs[r])
       IN  /\ books' = res.books
           /\ reqs' = [q \in Requests |->
                         IF q = r
                         THEN [reqs[r] EXCEPT !.state = "done", !.status = res.status,
                                              !.had = AnyBookId(books, reqs[r].book_id)]
                         ELSE IF Undoes(reqs[r], reqs[q], res.status)
                              THEN [reqs[q] EXCEPT !.cut = TRUE]
                              ELSE reqs[q]]
    /\ UNCHANGED <<prev, resp, nops, order, latest>>

ConcNext == (\E r \in Requests : Submit(r)) \/ (\E r \in Requests : Handle(r))

ConcSpec == Init /\ [][ConcNext]_vars

\* C9: every handler runs as one step, so two overlapping Creates of the same
\* new book_id give one 201 and one 400, two overlapping Deletes of the same
\* book_id give one 204 and one 404, and book_ids stay unique.
Overlapped(a, b) == a \in reqs[b].overlaps \/ b \in reqs[a].overlaps

SamePair(a, b, op) ==
    /\ a # b
    /\ reqs[a].state = "done" /\ reqs[b].state = "done"
    /\ reqs[a].op = op /\ reqs[b].op = op
    /\ reqs[a].book_id = reqs[b].book_id
    /\ Overlapped(a, b)
    /\ ~reqs[a].cut /\ ~reqs[b].cut

====
